---- MODULE Spec2Model ----
(***************************************************************************)
(* A model of badlog.py (loglint): the token buffer with push-back, the    *)
(* recognizer states Initial, PossibleLoggerStatement, LoggerFormatString  *)
(* and CountingArgs, and the scan engine that drives them.                 *)
(*                                                                         *)
(* A token is the tuple tokenize produces, (type, string, start, end,      *)
(* line); the model keeps type, string and start.  A token's string is a   *)
(* sequence of one-character strings, so that count_format_specifiers and  *)
(* int() work on its characters.                                           *)
(***************************************************************************)
EXTENDS Integers, Sequences, FiniteSets, TLC

VARIABLES
    tokens,           \* the shared, mutable token list
    writer,           \* what has been written to the writer, one entry per message
    options,          \* [ignore_pct_formats, no_warnings]
    state,            \* NAME of the current state object; "stopped" / "crashed" once consume() is left
    pc,               \* position inside the current state's process()
    consumed_tokens,  \* self.consumed_tokens of the current state object
    expected_args,    \* CountingArgsState.expected_args, its integer part
    expected_frac,    \* and its fractional part <<n, d>> (a float after `* 0.5`)
    found_args,       \* CountingArgsState.found_args
    open_parens,      \* CountingArgsState.open_parens
    count,            \* the local `count` of LoggerFormatStringState.process
    count_frac,       \* and its fractional part <<n, d>>
    exception,        \* the exception that left consume(), "none" otherwise
    branch,           \* which path the last step of process() took
    input,            \* the token list as it was handed over (never changes)
    tokens_at_initial \* len(tokens) when the latest InitialState was made (history)

vars == <<tokens, writer, options, state, pc, consumed_tokens, expected_args,
          expected_frac, found_args, open_parens, count, count_frac, exception, branch,
          input, tokens_at_initial>>

(***************************************************************************)
(* Bounds of the model.                                                    *)
(***************************************************************************)
\* longest tail of tokens enumerated after `logger.debug(<fmt>`
MaxTail == 3
\* longest token list enumerated over HeadAlphabet
MaxHead == 4
\* longest buffer enumerated for the BaseState round trip
MaxBuf == 4
\* longest token text enumerated for count_format_specifiers
MaxText == 5

(***************************************************************************)
(* Token types (Python 2 tokenize).                                        *)
(***************************************************************************)
tokenize_ENDMARKER == 0
tokenize_NAME == 1
tokenize_NUMBER == 2
tokenize_STRING == 3
tokenize_NEWLINE == 4
tokenize_INDENT == 5
tokenize_OP == 51
tokenize_NL == 54

IGNORED_TOKENS == {tokenize_INDENT, tokenize_NEWLINE, tokenize_NL}

(***************************************************************************)
(* Token strings, spelled character by character.                          *)
(***************************************************************************)
S_logger == <<"l", "o", "g", "g", "e", "r">>
S_log == <<"l", "o", "g">>
S_LOG == <<"L", "O", "G">>
S_LOGGER == <<"L", "O", "G", "G", "E", "R">>
S_logging == <<"l", "o", "g", "g", "i", "n", "g">>
S_debug == <<"d", "e", "b", "u", "g">>
S_info == <<"i", "n", "f", "o">>
S_warn == <<"w", "a", "r", "n">>
S_error == <<"e", "r", "r", "o", "r">>
S_exception == <<"e", "x", "c", "e", "p", "t", "i", "o", "n">>
S_critical == <<"c", "r", "i", "t", "i", "c", "a", "l">>
S_format == <<"f", "o", "r", "m", "a", "t">>
S_x == <<"x">>
S_dot == <<".">>
S_lpar == <<"(">>
S_rpar == <<")">>
S_comma == <<",">>
S_percent == <<"%">>
S_star == <<"*">>
S_plus == <<"+">>
S_lbracket == <<"[">>
S_rbracket == <<"]">>
S_lbrace == <<"{">>
S_rbrace == <<"}">>
S_empty == <<>>
S_nl == <<"\n">>
\* the literals 'a', '%s' and '%s%%' (quotes are part of a STRING token's text)
S_str0 == <<"'", "a", "'">>
S_str1 == <<"'", "%", "s", "'">>
S_str1e == <<"'", "%", "s", "%", "%", "'">>
S_str2 == <<"'", "%", "s", "%", "d", "'">>
\* the literals 0, 2, 3 and 0x2
S_0 == <<"0">>
S_2 == <<"2">>
S_3 == <<"3">>
S_0x2 == <<"0", "x", "2">>
\* the float literal 0.5
S_half == <<"0", ".", "5">>

\* a token before it is given its position: (type, string)
K(type, string) == [type |-> type, string |-> string]

k_logger == K(tokenize_NAME, S_logger)
k_log == K(tokenize_NAME, S_log)
k_LOG == K(tokenize_NAME, S_LOG)
k_LOGGER == K(tokenize_NAME, S_LOGGER)
k_logging == K(tokenize_NAME, S_logging)
k_debug == K(tokenize_NAME, S_debug)
k_info == K(tokenize_NAME, S_info)
k_warn == K(tokenize_NAME, S_warn)
k_error == K(tokenize_NAME, S_error)
k_exception == K(tokenize_NAME, S_exception)
k_critical == K(tokenize_NAME, S_critical)
k_format == K(tokenize_NAME, S_format)
k_x == K(tokenize_NAME, S_x)
k_dot == K(tokenize_OP, S_dot)
k_lpar == K(tokenize_OP, S_lpar)
k_rpar == K(tokenize_OP, S_rpar)
k_comma == K(tokenize_OP, S_comma)
k_percent == K(tokenize_OP, S_percent)
k_star == K(tokenize_OP, S_star)
k_plus == K(tokenize_OP, S_plus)
k_lbracket == K(tokenize_OP, S_lbracket)
k_rbracket == K(tokenize_OP, S_rbracket)
k_lbrace == K(tokenize_OP, S_lbrace)
k_rbrace == K(tokenize_OP, S_rbrace)
k_str0 == K(tokenize_STRING, S_str0)
k_str1 == K(tokenize_STRING, S_str1)
k_str1e == K(tokenize_STRING, S_str1e)
k_str2 == K(tokenize_STRING, S_str2)
k_0 == K(tokenize_NUMBER, S_0)
k_2 == K(tokenize_NUMBER, S_2)
k_3 == K(tokenize_NUMBER, S_3)
k_0x2 == K(tokenize_NUMBER, S_0x2)
k_half == K(tokenize_NUMBER, S_half)
k_nl == K(tokenize_NL, S_nl)
k_newline == K(tokenize_NEWLINE, S_nl)
k_indent == K(tokenize_INDENT, S_empty)
k_endmarker == K(tokenize_ENDMARKER, S_empty)

\* the row a token starts on: one more than the line ends before it
RECURSIVE RowOf(_, _)
RowOf(ks, i) ==
    IF i <= 1 THEN 1
    ELSE RowOf(ks, i - 1) + (IF ks[i - 1].type \in {tokenize_NEWLINE, tokenize_NL} THEN 1 ELSE 0)

\* the token list tokenize hands over for a sequence of (type, string):
\* start is (row, col); col is the token's place in the stream
Tokenize(ks) ==
    [i \in 1..Len(ks) |->
        [type |-> ks[i].type, string |-> ks[i].string, start |-> <<RowOf(ks, i), i>>]]

\* all sequences over S of length at most n
SeqsUpTo(S, n) == UNION {[1..m -> S] : m \in 0..n}

(***************************************************************************)
(* get_next_token: pop tokens until one is not ignored.  The ignored       *)
(* tokens popped on the way are dropped.  raised = TRUE stands for the     *)
(* IndexError of tokens.pop(0) on an empty list.                           *)
(***************************************************************************)
RECURSIVE get_next_token(_)
get_next_token(toks) ==
    IF toks = <<>> THEN [raised |-> TRUE, token |-> <<>>, tokens |-> <<>>]
    ELSE IF Head(toks).type \notin IGNORED_TOKENS
         THEN [raised |-> FALSE, token |-> Head(toks), tokens |-> Tail(toks)]
         ELSE get_next_token(Tail(toks))

(***************************************************************************)
(* BaseState.consume_next_token, rewind, rewind_all, on the pair           *)
(* (tokens, consumed_tokens).                                              *)
(***************************************************************************)
consume_next_token(toks, consumed) ==
    LET r == get_next_token(toks)
    IN  [raised |-> r.raised,
         tokens |-> r.tokens,
         consumed |-> IF r.raised THEN consumed ELSE Append(consumed, r.token)]

\* tokens.append(token) where the code has tokens.insert(0, token)
rewind_append(toks, consumed) ==
    [tokens |-> toks \o <<consumed[Len(consumed)]>>,
     consumed |-> SubSeq(consumed, 1, Len(consumed) - 1)]

rewind(toks, consumed) ==
    [tokens |-> <<consumed[Len(consumed)]>> \o toks,
     consumed |-> SubSeq(consumed, 1, Len(consumed) - 1)]

\* the consumed tokens re-inserted oldest first, so that they come back reversed
rewind_all_oldest_first(toks, consumed) ==
    [tokens |-> [i \in 1..Len(consumed) |-> consumed[Len(consumed) + 1 - i]] \o toks,
     consumed |-> <<>>]

RECURSIVE rewind_all(_, _)
rewind_all(toks, consumed) ==
    IF Len(consumed) = 0 THEN [tokens |-> toks, consumed |-> consumed]
    ELSE LET r == rewind(toks, consumed) IN rewind_all(r.tokens, r.consumed)

current_token(consumed) == consumed[Len(consumed)]

(***************************************************************************)
(* BaseState._matches_token_req.  A requirement is None, a collection of   *)
(* admissible values, or one value.                                        *)
(***************************************************************************)
None == [req |-> "None"]
AnyOf(values) == [req |-> "collection", values |-> values]
Exactly(value) == [req |-> "value", value |-> value]

matches_token_req(value, required_value) ==
    IF required_value.req = "None" THEN TRUE
    ELSE IF required_value.req = "collection" THEN value \in required_value.values
    ELSE value = required_value.value

(***************************************************************************)
(* TokenAnalysisMixin: the tests on current_token.                         *)
(***************************************************************************)
is_token(consumed, required_token_string, required_token_type) ==
    /\ matches_token_req(current_token(consumed).type, required_token_type)
    /\ matches_token_req(current_token(consumed).string, required_token_string)

\* every opening bracket taken for an open paren
is_open_paren_or_bracket(consumed) ==
    is_token(consumed, AnyOf({S_lpar, S_lbracket, S_lbrace}), Exactly(tokenize_OP))

is_open_paren(consumed) == is_token(consumed, Exactly(S_lpar), Exactly(tokenize_OP))

is_close_paren(consumed) == is_token(consumed, Exactly(S_rpar), Exactly(tokenize_OP))

is_comma(consumed) == is_token(consumed, Exactly(S_comma), Exactly(tokenize_OP))

is_dot(consumed) == is_token(consumed, Exactly(S_dot), Exactly(tokenize_OP))

is_percent_sign(consumed) == is_token(consumed, Exactly(S_percent), Exactly(tokenize_OP))

is_asterisk(consumed) == is_token(consumed, Exactly(S_star), Exactly(tokenize_OP))

is_plus(consumed) == is_token(consumed, Exactly(S_plus), Exactly(tokenize_OP))

is_number(consumed) == is_token(consumed, None, Exactly(tokenize_NUMBER))

is_format_string(consumed) == is_token(consumed, None, Exactly(tokenize_STRING))

\* "format" looked for among the STRING tokens
is_format_method_string(consumed) ==
    is_token(consumed, Exactly(S_format), Exactly(tokenize_STRING))

\* any NAME after the dot taken for `format`
is_format_method_any_name(consumed) == is_token(consumed, None, Exactly(tokenize_NAME))

is_format_method(consumed) == is_token(consumed, Exactly(S_format), Exactly(tokenize_NAME))

LOGGER_METHODS == {S_debug, S_info, S_warn, S_error, S_exception, S_critical}

\* any NAME taken for a logger method
is_logger_method_any_name(consumed) == is_token(consumed, None, Exactly(tokenize_NAME))

is_logger_method(consumed) == is_token(consumed, AnyOf(LOGGER_METHODS), Exactly(tokenize_NAME))

POSSIBLE_LOGGER_STRINGS == {S_logger, S_LOG, S_log, S_LOGGER}

\* a NAME that starts with `log` taken for a logger name
is_possible_logger_statement_prefix(consumed) ==
    /\ is_token(consumed, None, Exactly(tokenize_NAME))
    /\ Len(current_token(consumed).string) >= 3
    /\ SubSeq(current_token(consumed).string, 1, 3) = S_log

is_possible_logger_statement(consumed) ==
    is_token(consumed, AnyOf(POSSIBLE_LOGGER_STRINGS), Exactly(tokenize_NAME))

(***************************************************************************)
(* get_number_from_token: int(n), and float(n) when int raises ValueError. *)
(* int() reads a string of decimal digits; float() raises ValueError on    *)
(* any text with a character outside a decimal float literal, such as the  *)
(* x of a hexadecimal literal, and reads digits, a point and digits.  A     *)
(* number is kept as its integer part and its fractional part <<n, d>> in  *)
(* lowest terms, Whole for an int and for a float such as 1.0 (which       *)
(* compares equal to 1 and is written as 1 by %d).                         *)
(***************************************************************************)
Whole == <<0, 1>>

RECURSIVE gcd(_, _)
gcd(a, b) == IF b = 0 THEN a ELSE gcd(b, a % b)

\* the number p / q, with q > 0 and p >= 0
Fraction(p, q) ==
    [value |-> p \div q,
     frac |-> IF p % q = 0 THEN Whole
              ELSE <<(p % q) \div gcd(p % q, q), q \div gcd(p % q, q)>>]

\* `count *= num`
times(cnt, frac, num) ==
    Fraction((cnt * frac[2] + frac[1]) * (num.value * num.frac[2] + num.frac[1]),
             frac[2] * num.frac[2])

\* `count > 0` and `count <= 0`
is_positive(cnt, frac) == cnt > 0 \/ (cnt = 0 /\ frac # Whole)

\* `self.expected_args != self.found_args`
not_equal(expected, frac, found) == expected # found \/ frac # Whole

Digits == <<"0", "1", "2", "3", "4", "5", "6", "7", "8", "9">>

DigitValue(c) == (CHOOSE d \in 1..10 : Digits[d] = c) - 1

IsDigit(c) == \E d \in 1..10 : Digits[d] = c

RECURSIVE int(_)
int(n) ==
    IF Len(n) = 0 THEN 0
    ELSE 10 * int(SubSeq(n, 1, Len(n) - 1)) + DigitValue(n[Len(n)])

int_raises(n) == Len(n) = 0 \/ \E i \in 1..Len(n) : ~IsDigit(n[i])

RECURSIVE power_of_ten(_)
power_of_ten(k) == IF k = 0 THEN 1 ELSE 10 * power_of_ten(k - 1)

\* where the point of a float literal is: digits before or after it, digits only
PointAt(n, i) ==
    /\ n[i] = "."
    /\ Len(n) > 1
    /\ \A j \in 1..Len(n) : j # i => IsDigit(n[j])

float_raises(n) == ~\E i \in 1..Len(n) : PointAt(n, i)

float(n) ==
    LET i == CHOOSE i \in 1..Len(n) : PointAt(n, i)
        digits == SubSeq(n, 1, i - 1) \o SubSeq(n, i + 1, Len(n))
    IN  Fraction(int(digits), power_of_ten(Len(n) - i))

get_number_from_token(consumed) ==
    LET n == current_token(consumed).string
    IN  IF ~int_raises(n) THEN [raised |-> FALSE, value |-> int(n), frac |-> Whole]
        ELSE IF ~float_raises(n)
        THEN [raised |-> FALSE, value |-> float(n).value, frac |-> float(n).frac]
        ELSE [raised |-> TRUE, value |-> 0, frac |-> Whole]

(***************************************************************************)
(* LoggerFormatStringState.count_format_specifiers: the loop over the      *)
(* indices of the string, with its skip flag; string[index + 1] past the   *)
(* end raises IndexError, which is passed over.                            *)
(***************************************************************************)
RECURSIVE count_from(_, _, _, _)
count_from(string, index, skip, cnt) ==
    IF index > Len(string) THEN cnt
    ELSE IF skip THEN count_from(string, index + 1, FALSE, cnt)
    ELSE IF string[index] = "%"
         THEN IF index + 1 > Len(string)
              THEN count_from(string, index + 1, FALSE, cnt)
              ELSE IF string[index + 1] = "%"
                   THEN count_from(string, index + 1, TRUE, cnt)
                   ELSE count_from(string, index + 1, FALSE, cnt + 1)
         ELSE count_from(string, index + 1, FALSE, cnt)

\* every `%` that has a character after it counted, `%%` not told apart
count_format_specifiers_no_escape(consumed) ==
    LET string == current_token(consumed).string
    IN  Cardinality({index \in 1..(Len(string) - 1) : string[index] = "%"})

count_format_specifiers(consumed) ==
    count_from(current_token(consumed).string, 1, FALSE, 0)

(***************************************************************************)
(* BaseState.format_message / format_error / format_warning: one entry of  *)
(* the writer per message, with the row of current_token.                  *)
(***************************************************************************)
\* the message located at the first token the state consumed
format_message_first_token(out, severity, msg, consumed) ==
    Append(out, [severity |-> severity, msg |-> msg, row |-> consumed[1].start[1]])

format_message(out, severity, msg, consumed) ==
    Append(out, [severity |-> severity, msg |-> msg,
                 row |-> current_token(consumed).start[1]])

format_error(out, msg, consumed) == format_message(out, "ERROR", msg, consumed)

\* a warning written whatever options.no_warnings says
format_warning_always(out, msg, consumed, opts) ==
    format_message(out, "WARNING", msg, consumed)

format_warning(out, msg, consumed, opts) ==
    IF ~opts.no_warnings THEN format_message(out, "WARNING", msg, consumed) ELSE out

\* "Logger statement has %d format specifiers but %d argument(s)."
MismatchMsg(expected, found) ==
    <<"Logger statement has", expected, "format specifiers but", found, "argument(s).">>

PercentMsg ==
    <<"Logger statement uses % operator for formatting instead of letting logger handle it.">>

AddedMsg == <<"Can't handle added (+) format strings (yet)">>

MultipliedMsg == <<"Can't evaluate multiplied format string">>

\* "... %d ... %d ..." % (self.expected_args, self.found_args): the message holds
\* the integer part of each number
format_expected_actual_args_difference(out, expected, found, consumed) ==
    format_error(out, MismatchMsg(expected, found), consumed)

(***************************************************************************)
(* The token lists scanned: every call `logger.debug(<fmt> <tail>` with a  *)
(* tail of at most MaxTail tokens, and the sources of tests.py.            *)
(***************************************************************************)
CallPrefix == <<k_logger, k_dot, k_debug, k_lpar>>

FormatStrings == {k_str0, k_str1}

TailAlphabet ==
    {k_x, k_format, k_dot, k_lpar, k_rpar, k_comma, k_percent, k_star, k_plus,
     k_str1, k_2, k_0x2, k_nl}

CallInputs ==
    {CallPrefix \o <<f>> \o t : f \in FormatStrings, t \in SeqsUpTo(TailAlphabet, MaxTail)}

\* logger.debug('foo: %s', 1, 2)
test_one_fmt_two_args ==
    CallPrefix \o <<k_str1, k_comma, k_2, k_comma, k_2, k_rpar>>

\* logger.debug("... %d ..." <NL> "... %d ...", len(a), len(b))
test_proper_paren_matching ==
    CallPrefix \o <<k_str1, k_nl, k_str1, k_comma, k_x, k_lpar, k_x, k_rpar, k_comma,
                    k_x, k_lpar, k_x, k_rpar, k_rpar, k_newline>>

\* logger.info("blah: [%s]", <NL> ",".join(map(str, stuff)))
test_nested_commas ==
    <<k_logger, k_dot, k_info, k_lpar, k_str1, k_comma, k_nl, k_str0, k_dot, k_x, k_lpar,
      k_x, k_lpar, k_x, k_comma, k_x, k_rpar, k_rpar, k_rpar, k_newline>>

\* logger.debug("a " <NL> "b")
test_multiple_concatenated_strings ==
    CallPrefix \o <<k_str0, k_nl, k_str0, k_rpar, k_newline>>

\* logger.debug('%s' * 2, x, x)
multiplied_two_args ==
    CallPrefix \o <<k_str1, k_star, k_2, k_comma, k_x, k_comma, k_x, k_rpar>>

\* short token lists over the tokens that decide Initial and PossibleLoggerStatement
HeadAlphabet == {k_logger, k_dot, k_debug, k_lpar, k_str0, k_x}

HeadInputs == SeqsUpTo(HeadAlphabet, MaxHead)

\* <name>.debug('%s', x) for the four logger names and for `logging`
NameInputs ==
    {<<n, k_dot, k_debug, k_lpar, k_str1, k_comma, k_x, k_rpar, k_newline>> :
        n \in {k_logger, k_log, k_LOG, k_LOGGER, k_logging}}

\* logger.<method>('%s', x) for the six logger methods and for two other names
MethodInputs ==
    {<<k_logger, k_dot, n, k_lpar, k_str1, k_comma, k_x, k_rpar, k_newline>> :
        n \in {k_debug, k_info, k_warn, k_error, k_exception, k_critical, k_x, k_format}}

\* sources cut short, as tokenize hands them over: the ENDMARKER token comes last
\* (`logger`, `logger.`, `logger.debug`, `logger.debug('%s', x]`, `logger.debug('a' *]`)
EndmarkerInputs ==
    {<<k_logger, k_newline, k_endmarker>>,
     <<k_logger, k_dot, k_newline, k_endmarker>>,
     <<k_logger, k_dot, k_debug, k_newline, k_endmarker>>,
     CallPrefix \o <<k_str1, k_comma, k_x, k_rbracket, k_newline, k_endmarker>>,
     CallPrefix \o <<k_str0, k_star, k_rbracket, k_newline, k_endmarker>>}

\* logger.debug(x, '%s'): the first argument is not a string literal
first_argument_not_a_string == CallPrefix \o <<k_x, k_comma, k_str1, k_rpar, k_newline>>

\* <blank line> logger.debug('foo: %s', <NL> 1, 2)
test_multiline_one_fmt_two_args ==
    <<k_nl, k_indent>> \o CallPrefix
        \o <<k_str1, k_comma, k_nl, k_2, k_comma, k_2, k_rpar, k_newline>>

\* <blank line> logger.debug('foo: %s %s.', <NL> 1)
test_multiline_two_fmt_one_args ==
    <<k_nl, k_indent>> \o CallPrefix \o <<k_str2, k_comma, k_nl, k_2, k_rpar, k_newline>>

\* logger.debug('%s'.x(), x)
dot_method_one_arg ==
    CallPrefix \o <<k_str1, k_dot, k_x, k_lpar, k_rpar, k_comma, k_x, k_rpar, k_newline>>

\* logger.debug('%s', [x, x]) and logger.debug('%s', {x, x})
bracketed_commas ==
    CallPrefix \o <<k_str1, k_comma, k_lbracket, k_x, k_comma, k_x, k_rbracket, k_rpar,
                    k_newline>>

braced_commas ==
    CallPrefix \o <<k_str1, k_comma, k_lbrace, k_x, k_comma, k_x, k_rbrace, k_rpar,
                    k_newline>>

\* logger.debug('%s' * x * 2, x, x)
multiplied_by_name_and_number ==
    CallPrefix \o <<k_str1, k_star, k_x, k_star, k_2, k_comma, k_x, k_comma, k_x, k_rpar,
                    k_newline>>

\* logger.debug('%s' * 0.5)
half_a_specifier == CallPrefix \o <<k_str1, k_star, k_half, k_rpar, k_newline>>

\* logger.debug('%s%d' '%s' * 0.5, x)
one_and_a_half_specifiers ==
    CallPrefix \o <<k_str2, k_str1, k_star, k_half, k_comma, k_x, k_rpar, k_newline>>

\* logger.debug('%s%d' * 0.5, x) and logger.debug('%s' * 0.5 * 2, x)
whole_float_specifiers ==
    {CallPrefix \o <<k_str2, k_star, k_half, k_comma, k_x, k_rpar, k_newline>>,
     CallPrefix \o <<k_str1, k_star, k_half, k_star, k_2, k_comma, k_x, k_rpar, k_newline>>}

\* logger.debug('%s' * 0.5 * x) and logger.debug('%s' * 0.5 '%s', x)
float_then_more ==
    {CallPrefix \o <<k_str1, k_star, k_half, k_star, k_x, k_rpar, k_newline>>,
     CallPrefix \o <<k_str1, k_star, k_half, k_str1, k_comma, k_x, k_rpar, k_newline>>}

\* complete logger statements, one to a line: logger.debug('a'), logger.debug('%s'),
\* logger.debug('a', x), logger.debug('%s' % x), logger.debug('%s' + 'a')
Statements ==
    {CallPrefix \o <<k_str0, k_rpar, k_newline>>,
     CallPrefix \o <<k_str1, k_rpar, k_newline>>,
     CallPrefix \o <<k_str0, k_comma, k_x, k_rpar, k_newline>>,
     CallPrefix \o <<k_str1, k_percent, k_x, k_rpar, k_newline>>,
     CallPrefix \o <<k_str1, k_plus, k_str0, k_rpar, k_newline>>}

\* two statements, one after the other
StatementInputs == {s1 \o s2 : s1 \in Statements, s2 \in Statements}

TestInputs ==
    {test_one_fmt_two_args, test_proper_paren_matching, test_nested_commas,
     test_multiple_concatenated_strings, multiplied_two_args,
     first_argument_not_a_string, test_multiline_one_fmt_two_args,
     test_multiline_two_fmt_one_args, dot_method_one_arg, bracketed_commas,
     braced_commas, multiplied_by_name_and_number, half_a_specifier,
     one_and_a_half_specifiers}
        \cup whole_float_specifiers \cup float_then_more \cup NameInputs
        \cup MethodInputs \cup EndmarkerInputs \cup StatementInputs

NestedCommasTokens == Tokenize(test_nested_commas)

Inputs == CallInputs \cup HeadInputs \cup TestInputs

Options == [ignore_pct_formats : BOOLEAN, no_warnings : BOOLEAN]

(***************************************************************************)
(* BrokenLoggingDetectorStateMachine.consume starts in InitialState.       *)
(***************************************************************************)
Init ==
    /\ input \in {Tokenize(ks) : ks \in Inputs}
    /\ tokens = input
    /\ options \in Options
    /\ writer = <<>>
    /\ state = "initial"
    /\ pc = "process"
    /\ consumed_tokens = <<>>
    /\ expected_args = 0
    /\ expected_frac = Whole
    /\ found_args = 0
    /\ open_parens = 0
    /\ count = 0
    /\ count_frac = Whole
    /\ exception = "none"
    /\ branch = "none"
    /\ tokens_at_initial = Len(input)

(***************************************************************************)
(* make_new_state: the object of the transition's state, made with the     *)
(* transition's arguments; consumed_tokens starts empty and open_parens at *)
(* 0.  States without expected_args / found_args carry 0 there.            *)
(***************************************************************************)
EntryPc(new_state_name) ==
    IF new_state_name \in {"logger_format_string", "counting_args"} THEN "start"
    ELSE "process"

\* self.states, as __init__ fills it: UnreachableState is not among the classes
states ==
    {"initial", "possible_logger_statement", "logger_format_string", "counting_args",
     "the_end"}

\* self.states[transition.new_state_name] raises KeyError for a name not in it
make_new_state(new_state_name, expected, frac, found) ==
    IF new_state_name \in states
    THEN /\ state' = new_state_name
         /\ pc' = EntryPc(new_state_name)
         /\ consumed_tokens' = <<>>
         /\ expected_args' = expected
         /\ expected_frac' = frac
         /\ found_args' = found
         /\ open_parens' = 0
         /\ count' = 0
         /\ count_frac' = Whole
         /\ exception' = "none"
    ELSE /\ state' = "crashed"
         /\ exception' = "KeyError"
         /\ UNCHANGED <<pc, consumed_tokens, expected_args, expected_frac, found_args,
                        open_parens, count, count_frac>>

\* an exception other than StopIteration leaves process() and consume()
Raise(exc, toks) ==
    /\ state' = "crashed"
    /\ exception' = exc
    /\ tokens' = toks
    /\ UNCHANGED <<writer, pc, consumed_tokens, expected_args, expected_frac, found_args,
                   open_parens, count, count_frac>>

\* history: the length of the token list each time consume() makes an InitialState
RecordInitialVisit ==
    tokens_at_initial' = IF state' = "initial" THEN Len(tokens') ELSE tokens_at_initial

(***************************************************************************)
(* InitialState.process                                                    *)
(***************************************************************************)
InitialProcess ==
    /\ state = "initial"
    /\ LET c == consume_next_token(tokens, consumed_tokens)
       IN  /\ tokens' = c.tokens
           /\ IF c.raised
              THEN /\ make_new_state("the_end", 0, Whole, 0)
                   /\ branch' = "exhausted"
              ELSE IF is_possible_logger_statement(c.consumed)
              THEN /\ make_new_state("possible_logger_statement", 0, Whole, 0)
                   /\ branch' = "logger_name"
              ELSE /\ make_new_state("initial", 0, Whole, 0)
                   /\ branch' = "swallow"
    /\ UNCHANGED <<writer, options, input>>
    /\ RecordInitialVisit

(***************************************************************************)
(* EndState.process raises StopIteration, which ends consume()'s loop.     *)
(***************************************************************************)
\* an EndState that returns Transition("the_end", tokens) instead of raising
EndProcess_returns ==
    /\ state = "the_end"
    /\ state' = "the_end"
    /\ branch' = "returned"
    /\ UNCHANGED <<tokens, writer, options, pc, consumed_tokens, expected_args,
                   expected_frac, found_args, open_parens, count, count_frac, exception,
                   input, tokens_at_initial>>

EndProcess ==
    /\ state = "the_end"
    /\ state' = "stopped"
    /\ branch' = "StopIteration"
    /\ UNCHANGED <<tokens, writer, options, pc, consumed_tokens, expected_args,
                   expected_frac, found_args, open_parens, count, count_frac, exception,
                   input, tokens_at_initial>>

(***************************************************************************)
(* PossibleLoggerStatementState.process.  get_next_token raises            *)
(* IndexError, which `except StopIteration` does not catch.                *)
(***************************************************************************)
\* self.rewind(tokens) where the code has self.rewind_all(tokens)
back_to_initial_rewind(toks, consumed) == rewind(toks, consumed).tokens

back_to_initial(toks, consumed) == rewind_all(toks, consumed).tokens

PossibleLoggerStatementProcess ==
    /\ state = "possible_logger_statement"
    /\ LET c1 == consume_next_token(tokens, consumed_tokens)
           c2 == consume_next_token(c1.tokens, c1.consumed)
           c3 == consume_next_token(c2.tokens, c2.consumed)
           c4 == consume_next_token(c3.tokens, c3.consumed)
           abort(c) == /\ tokens' = back_to_initial(c.tokens, c.consumed)
                       /\ make_new_state("initial", 0, Whole, 0)
                       /\ writer' = writer
           raise(c) == Raise("IndexError", c.tokens)
       IN  IF c1.raised THEN raise(c1) /\ branch' = "raised"
           ELSE IF ~is_dot(c1.consumed) THEN abort(c1) /\ branch' = "not_dot"
           ELSE IF c2.raised THEN raise(c2) /\ branch' = "raised"
           ELSE IF ~is_logger_method(c2.consumed) THEN abort(c2) /\ branch' = "not_method"
           ELSE IF c3.raised THEN raise(c3) /\ branch' = "raised"
           ELSE IF ~is_open_paren(c3.consumed) THEN abort(c3) /\ branch' = "not_open_paren"
           ELSE IF c4.raised THEN raise(c4) /\ branch' = "raised"
           ELSE IF ~is_format_string(c4.consumed)
                THEN abort(c4) /\ branch' = "not_format_string"
           ELSE /\ tokens' = rewind(c4.tokens, c4.consumed).tokens
                /\ make_new_state("logger_format_string", 0, Whole, 0)
                /\ writer' = writer
                /\ branch' = "logger_statement"
    /\ UNCHANGED <<options, input>>
    /\ RecordInitialVisit

(***************************************************************************)
(* LoggerFormatStringState.process, in three positions: the first token    *)
(* and its count ("start"), one turn of the look-ahead loop ("lookahead"), *)
(* and what follows the loop ("decide"), confirm_close_paren included.     *)
(***************************************************************************)
LoggerFormatStringStart ==
    /\ state = "logger_format_string"
    /\ pc = "start"
    /\ LET c == consume_next_token(tokens, consumed_tokens)
       IN  IF c.raised
           THEN Raise("IndexError", c.tokens) /\ branch' = "raised"
           ELSE /\ tokens' = c.tokens
                /\ consumed_tokens' = c.consumed
                /\ count' = count_format_specifiers(c.consumed)
                /\ count_frac' = Whole
                /\ pc' = "lookahead"
                /\ branch' = "first_string"
                /\ UNCHANGED <<writer, state, expected_args, expected_frac, found_args,
                               open_parens, exception>>
    /\ UNCHANGED <<options, input>>
    /\ RecordInitialVisit

\* `count = self.count_format_specifiers()` where the code has `count += ...`
add_specifiers_overwrite(cnt, consumed) == count_format_specifiers(consumed)

\* `count += self.count_format_specifiers()`
add_specifiers(cnt, consumed) == cnt + count_format_specifiers(consumed)

\* the body of `while True:` once; result.pc is "lookahead" to go round again
\* the loop left after a multiplication that cannot be evaluated when warnings
\* are off: `if count <= 0 or self.options.no_warnings: break`
lookahead_turn_quiet_break(toks, consumed, cnt, frac, out, opts) ==
    LET c1 == consume_next_token(toks, consumed)
        c2 == consume_next_token(c1.tokens, c1.consumed)
        num == get_number_from_token(c2.consumed)
        stay(c, n, f, w, b) ==
            [raised |-> "none", tokens |-> c.tokens, consumed |-> c.consumed, count |-> n,
             frac |-> f, writer |-> w, pc |-> "lookahead", branch |-> b]
        break(t, cs, b) ==
            [raised |-> "none", tokens |-> t, consumed |-> cs, count |-> cnt,
             frac |-> frac, writer |-> out, pc |-> "decide", branch |-> b]
        raise(exc, c) ==
            [raised |-> exc, tokens |-> c.tokens, consumed |-> c.consumed, count |-> cnt,
             frac |-> frac, writer |-> out, pc |-> "lookahead", branch |-> "raised"]
    IN  IF c1.raised THEN raise("IndexError", c1)
        ELSE IF is_format_string(c1.consumed)
        THEN stay(c1, add_specifiers(cnt, c1.consumed), frac, out, "string")
        ELSE IF is_asterisk(c1.consumed)
        THEN IF c2.raised THEN raise("IndexError", c2)
             ELSE IF is_number(c2.consumed)
             THEN IF num.raised THEN raise("ValueError", c2)
                  ELSE stay(c2, times(cnt, frac, num).value, times(cnt, frac, num).frac,
                            out, "times_number")
             ELSE IF ~is_positive(cnt, frac) \/ opts.no_warnings
                  THEN break(c2.tokens, c2.consumed, "times_other_zero")
             ELSE stay(c2, cnt, frac,
                       format_warning(out, MultipliedMsg, c2.consumed, opts), "times_other")
        ELSE LET r == rewind(c1.tokens, c1.consumed)
             IN  break(r.tokens, r.consumed, "put_back")

lookahead_turn(toks, consumed, cnt, frac, out, opts) ==
    LET c1 == consume_next_token(toks, consumed)
        c2 == consume_next_token(c1.tokens, c1.consumed)
        num == get_number_from_token(c2.consumed)
        stay(c, n, f, w, b) ==
            [raised |-> "none", tokens |-> c.tokens, consumed |-> c.consumed, count |-> n,
             frac |-> f, writer |-> w, pc |-> "lookahead", branch |-> b]
        break(t, cs, b) ==
            [raised |-> "none", tokens |-> t, consumed |-> cs, count |-> cnt,
             frac |-> frac, writer |-> out, pc |-> "decide", branch |-> b]
        raise(exc, c) ==
            [raised |-> exc, tokens |-> c.tokens, consumed |-> c.consumed, count |-> cnt,
             frac |-> frac, writer |-> out, pc |-> "lookahead", branch |-> "raised"]
    IN  IF c1.raised THEN raise("IndexError", c1)
        ELSE IF is_format_string(c1.consumed)
        THEN stay(c1, add_specifiers(cnt, c1.consumed), frac, out, "string")
        ELSE IF is_asterisk(c1.consumed)
        THEN IF c2.raised THEN raise("IndexError", c2)
             ELSE IF is_number(c2.consumed)
             THEN IF num.raised THEN raise("ValueError", c2)
                  ELSE stay(c2, times(cnt, frac, num).value, times(cnt, frac, num).frac,
                            out, "times_number")
             ELSE IF ~is_positive(cnt, frac)
                  THEN break(c2.tokens, c2.consumed, "times_other_zero")
             ELSE stay(c2, cnt, frac,
                       format_warning(out, MultipliedMsg, c2.consumed, opts), "times_other")
        ELSE LET r == rewind(c1.tokens, c1.consumed)
             IN  break(r.tokens, r.consumed, "put_back")

LoggerFormatStringLookahead ==
    /\ state = "logger_format_string"
    /\ pc = "lookahead"
    /\ LET t == lookahead_turn(tokens, consumed_tokens, count, count_frac, writer,
                               options)
       IN  IF t.raised # "none"
           THEN Raise(t.raised, t.tokens) /\ branch' = t.branch
           ELSE /\ tokens' = t.tokens
                /\ consumed_tokens' = t.consumed
                /\ count' = t.count
                /\ count_frac' = t.frac
                /\ writer' = t.writer
                /\ pc' = t.pc
                /\ branch' = t.branch
                /\ UNCHANGED <<state, expected_args, expected_frac, found_args,
                               open_parens, exception>>
    /\ UNCHANGED <<options, input>>
    /\ RecordInitialVisit

\* confirm_close_paren without its self.rewind(tokens)
confirm_close_paren_no_rewind(toks, consumed) ==
    LET c == consume_next_token(toks, consumed)
    IN  IF c.raised THEN [raised |-> TRUE, tokens |-> c.tokens, new_state_name |-> "none"]
        ELSE IF is_close_paren(c.consumed)
        THEN [raised |-> FALSE, tokens |-> c.tokens, new_state_name |-> "initial"]
        ELSE [raised |-> FALSE, tokens |-> c.tokens, new_state_name |-> "counting_args"]

\* confirm_close_paren: the name of the next state and the token list it leaves
confirm_close_paren(toks, consumed) ==
    LET c == consume_next_token(toks, consumed)
    IN  IF c.raised THEN [raised |-> TRUE, tokens |-> c.tokens, new_state_name |-> "none"]
        ELSE IF is_close_paren(c.consumed)
        THEN [raised |-> FALSE, tokens |-> c.tokens, new_state_name |-> "initial"]
        ELSE [raised |-> FALSE, tokens |-> rewind(c.tokens, c.consumed).tokens,
              new_state_name |-> "counting_args"]

\* `elif count < 0:` where the code has `else:`
return_after_loop_elif(cnt, frac) ==
    IF is_positive(cnt, frac) THEN "counting_args"
    ELSE IF cnt < 0 THEN "confirm_close_paren"
    ELSE "unreachable_state"

\* which return statement follows the loop: `if count > 0: return ... else: return ...`
\* leaves the third, `return Transition("unreachable_state", tokens)`, without a case
return_after_loop(cnt, frac) ==
    IF is_positive(cnt, frac) THEN "counting_args" ELSE "confirm_close_paren"

LoggerFormatStringDecide ==
    /\ state = "logger_format_string"
    /\ pc = "decide"
    /\ IF return_after_loop(count, count_frac) = "counting_args"
       THEN /\ make_new_state("counting_args", count, count_frac, 0)
            /\ branch' = "specifiers"
            /\ UNCHANGED <<tokens, writer>>
       ELSE IF return_after_loop(count, count_frac) = "confirm_close_paren"
       THEN LET r == confirm_close_paren(tokens, consumed_tokens)
            IN  IF r.raised
                THEN Raise("IndexError", r.tokens) /\ branch' = "raised"
                ELSE /\ tokens' = r.tokens
                     /\ make_new_state(r.new_state_name, 0, Whole, 0)
                     /\ branch' = IF r.new_state_name = "initial"
                                   THEN "closed" ELSE "not_closed"
                     /\ writer' = writer
       ELSE /\ make_new_state("unreachable_state", 0, Whole, 0)
            /\ branch' = "unreachable_state"
            /\ UNCHANGED <<tokens, writer>>
    /\ UNCHANGED <<options, input>>
    /\ RecordInitialVisit

(***************************************************************************)
(* CountingArgsState.process, in three positions: the first token and the  *)
(* special cases up to `self.found_args += 1` ("start"), one turn of the   *)
(* counting loop ("loop"), and what follows the loop ("after_loop").       *)
(***************************************************************************)
\* the report of the % operator with ignore_pct_formats not looked at
percent_sign_report_always(out, consumed, opts) == format_error(out, PercentMsg, consumed)

\* `if not self.options.ignore_pct_formats: self.format_error(...)`
percent_sign_report(out, consumed, opts) ==
    IF ~opts.ignore_pct_formats THEN format_error(out, PercentMsg, consumed) ELSE out

\* result.next is the next state's name, or "loop" to go on counting
\* the message about `+` written as an ERROR, whatever the options say
added_strings_report_error(out, consumed, opts) == format_error(out, AddedMsg, consumed)

\* self.format_warning("Can't handle added (+) format strings (yet)")
added_strings_report(out, consumed, opts) == format_warning(out, AddedMsg, consumed, opts)

counting_args_start(toks, consumed, expected, found, out, opts) ==
    LET c1 == consume_next_token(toks, consumed)
        c2 == consume_next_token(c1.tokens, c1.consumed)
        r2 == rewind(c2.tokens, c2.consumed)
        res(raised, t, cs, f, w, nxt, b) ==
            [raised |-> raised, tokens |-> t, consumed |-> cs, found |-> f, writer |-> w,
             next |-> nxt, branch |-> b]
    IN  IF c1.raised
        THEN res(TRUE, c1.tokens, c1.consumed, found, out, "none", "raised")
        ELSE IF found = 0 /\ is_close_paren(c1.consumed)
        THEN res(FALSE, c1.tokens, c1.consumed, found,
                 format_expected_actual_args_difference(out, expected, found, c1.consumed),
                 "initial", "close_paren_first")
        ELSE IF is_percent_sign(c1.consumed)
        THEN res(FALSE, c1.tokens, c1.consumed, found,
                 percent_sign_report(out, c1.consumed, opts), "initial", "percent")
        ELSE IF is_dot(c1.consumed)
        THEN IF c2.raised
             THEN res(TRUE, c2.tokens, c2.consumed, found, out, "none", "raised")
             ELSE IF is_format_method(c2.consumed)
             THEN res(FALSE, c2.tokens, c2.consumed, found, out, "initial", "dot_format")
             \* after the rewind current_token is the dot again, so is_plus() is false
             ELSE res(FALSE, r2.tokens, r2.consumed, found + 1, out, "loop", "dot_other")
        ELSE IF is_plus(c1.consumed)
        THEN IF c2.raised
             THEN res(TRUE, c2.tokens, c2.consumed, found, out, "none", "raised")
             ELSE res(FALSE, c2.tokens, c2.consumed, found,
                      added_strings_report(out, c2.consumed, opts), "initial", "plus")
        ELSE res(FALSE, c1.tokens, c1.consumed, found + 1, out, "loop", "first_arg")

CountingArgsStart ==
    /\ state = "counting_args"
    /\ pc = "start"
    /\ LET r == counting_args_start(tokens, consumed_tokens, expected_args, found_args,
                                    writer, options)
       IN  IF r.raised
           THEN Raise("IndexError", r.tokens) /\ branch' = r.branch
           ELSE /\ tokens' = r.tokens
                /\ writer' = r.writer
                /\ branch' = r.branch
                /\ IF r.next = "loop"
                   THEN /\ pc' = "loop"
                        /\ consumed_tokens' = r.consumed
                        /\ found_args' = r.found
                        /\ UNCHANGED <<state, expected_args, expected_frac, open_parens,
                                       count, count_frac, exception>>
                   ELSE make_new_state(r.next, 0, Whole, 0)
    /\ UNCHANGED <<options, input>>
    /\ RecordInitialVisit

\* a comma counted at any depth
is_top_level_comma_any_depth(consumed, parens) == is_comma(consumed)

\* `self.is_comma() and self.open_parens <= 0`
is_top_level_comma(consumed, parens) == is_comma(consumed) /\ parens <= 0

\* the peek after a comma taken for an argument's start whatever it is
one_tuple_never(consumed) == FALSE

\* `one_tuple = self.is_close_paren()` on the token peeked after a comma
one_tuple(consumed) == is_close_paren(consumed)

\* the body of `while True:` once; result.pc is "loop" to go round again
counting_args_turn(toks, consumed, found, parens) ==
    LET c1 == consume_next_token(toks, consumed)
        c2 == consume_next_token(c1.tokens, c1.consumed)
        r2 == rewind(c2.tokens, c2.consumed)
        res(raised, t, cs, f, p, nxt, b) ==
            [raised |-> raised, tokens |-> t, consumed |-> cs, found |-> f,
             open_parens |-> p, pc |-> nxt, branch |-> b]
    IN  IF c1.raised
        THEN res(TRUE, c1.tokens, c1.consumed, found, parens, "loop", "raised")
        ELSE IF is_top_level_comma(c1.consumed, parens)
        THEN IF c2.raised
             THEN res(TRUE, c2.tokens, c2.consumed, found, parens, "loop", "raised")
             ELSE IF ~one_tuple(c2.consumed)
             THEN res(FALSE, r2.tokens, r2.consumed, found + 1, parens, "loop", "comma")
             ELSE res(FALSE, r2.tokens, r2.consumed, found, parens, "loop",
                      "trailing_comma")
        ELSE IF is_close_paren(c1.consumed)
        THEN IF parens <= 0
             THEN res(FALSE, c1.tokens, c1.consumed, found, parens, "after_loop", "break")
             ELSE res(FALSE, c1.tokens, c1.consumed, found, parens - 1, "loop",
                      "nested_close")
        ELSE IF is_open_paren(c1.consumed)
        THEN res(FALSE, c1.tokens, c1.consumed, found, parens + 1, "loop", "nested_open")
        ELSE res(FALSE, c1.tokens, c1.consumed, found, parens, "loop", "other")

CountingArgsLoop ==
    /\ state = "counting_args"
    /\ pc = "loop"
    /\ LET r == counting_args_turn(tokens, consumed_tokens, found_args, open_parens)
       IN  IF r.raised
           THEN Raise("IndexError", r.tokens) /\ branch' = r.branch
           ELSE /\ tokens' = r.tokens
                /\ consumed_tokens' = r.consumed
                /\ found_args' = r.found
                /\ open_parens' = r.open_parens
                /\ pc' = r.pc
                /\ branch' = r.branch
                /\ UNCHANGED <<writer, state, expected_args, expected_frac, count,
                               count_frac, exception>>
    /\ UNCHANGED <<options, input>>
    /\ RecordInitialVisit

\* what is written once the loop is left
counting_args_after_loop(out, expected, frac, found, consumed) ==
    IF not_equal(expected, frac, found)
    THEN format_expected_actual_args_difference(out, expected, found, consumed)
    ELSE out

\* a mismatch that ends the scan: Transition("the_end", tokens) after the report
CountingArgsAfterLoop_fatal ==
    /\ state = "counting_args"
    /\ pc = "after_loop"
    /\ writer' = counting_args_after_loop(writer, expected_args, expected_frac, found_args,
                                          consumed_tokens)
    /\ branch' = IF not_equal(expected_args, expected_frac, found_args)
                  THEN "mismatch" ELSE "match"
    /\ make_new_state(IF not_equal(expected_args, expected_frac, found_args)
                      THEN "the_end" ELSE "initial", 0, Whole, 0)
    /\ UNCHANGED <<tokens, options, input>>
    /\ RecordInitialVisit

CountingArgsAfterLoop ==
    /\ state = "counting_args"
    /\ pc = "after_loop"
    /\ writer' = counting_args_after_loop(writer, expected_args, expected_frac, found_args,
                                          consumed_tokens)
    /\ branch' = IF not_equal(expected_args, expected_frac, found_args)
                  THEN "mismatch" ELSE "match"
    /\ make_new_state("initial", 0, Whole, 0)
    /\ UNCHANGED <<tokens, options, input>>
    /\ RecordInitialVisit

(***************************************************************************)
(* consume(): the loop of the scan engine.                                 *)
(***************************************************************************)
Next ==
    \/ InitialProcess
    \/ PossibleLoggerStatementProcess
    \/ LoggerFormatStringStart
    \/ LoggerFormatStringLookahead
    \/ LoggerFormatStringDecide
    \/ CountingArgsStart
    \/ CountingArgsLoop
    \/ CountingArgsAfterLoop
    \/ EndProcess

Spec == Init /\ [][Next]_vars

(***************************************************************************)
(* A BaseState on its own, driven as BaseStateTests drive it: some calls   *)
(* of consume_next_token, then rewind / rewind_all.                        *)
(***************************************************************************)
BaseAlphabet == {k_x, k_comma, k_nl, k_indent}

InitBase ==
    /\ input \in {Tokenize(ks) : ks \in SeqsUpTo(BaseAlphabet, MaxBuf)}
    /\ tokens = input
    /\ options = [ignore_pct_formats |-> FALSE, no_warnings |-> FALSE]
    /\ writer = <<>>
    /\ state = "base"
    /\ pc = "consume"
    /\ consumed_tokens = <<>>
    /\ expected_args = 0
    /\ expected_frac = Whole
    /\ found_args = 0
    /\ open_parens = 0
    /\ count = 0
    /\ count_frac = Whole
    /\ exception = "none"
    /\ branch = "none"
    /\ tokens_at_initial = Len(input)

BaseConsumeNextToken ==
    /\ state = "base"
    /\ pc = "consume"
    /\ LET c == consume_next_token(tokens, consumed_tokens)
       IN  /\ tokens' = c.tokens
           /\ consumed_tokens' = c.consumed
           /\ pc' = IF c.raised THEN "raised" ELSE "consume"
           /\ exception' = IF c.raised THEN "IndexError" ELSE "none"
    /\ branch' = "consume_next_token"
    /\ UNCHANGED <<writer, options, state, expected_args, expected_frac, found_args,
                   open_parens, count, count_frac, input, tokens_at_initial>>

\* consumed_tokens.pop() of an empty list raises IndexError
BaseRewind ==
    /\ state = "base"
    /\ pc \in {"consume", "rewind"}
    /\ IF Len(consumed_tokens) = 0
       THEN /\ pc' = "raised"
            /\ exception' = "IndexError"
            /\ UNCHANGED <<tokens, consumed_tokens>>
       ELSE /\ tokens' = rewind(tokens, consumed_tokens).tokens
            /\ consumed_tokens' = rewind(tokens, consumed_tokens).consumed
            /\ pc' = "rewind"
            /\ exception' = "none"
    /\ branch' = "rewind"
    /\ UNCHANGED <<writer, options, state, expected_args, expected_frac, found_args,
                   open_parens, count, count_frac, input, tokens_at_initial>>

BaseRewindAll ==
    /\ state = "base"
    /\ pc \in {"consume", "rewind"}
    /\ tokens' = rewind_all(tokens, consumed_tokens).tokens
    /\ consumed_tokens' = rewind_all(tokens, consumed_tokens).consumed
    /\ pc' = "rewind"
    /\ branch' = "rewind_all"
    /\ UNCHANGED <<writer, options, state, expected_args, expected_frac, found_args,
                   open_parens, count, count_frac, exception, input, tokens_at_initial>>

NextBase ==
    \/ BaseConsumeNextToken
    \/ BaseRewind
    \/ BaseRewindAll

SpecBase == InitBase /\ [][NextBase]_vars

(***************************************************************************)
(* A LoggerFormatStringState on its own, driven as LoggerFormatStringState- *)
(* Tests drive it: one STRING token consumed, then count_format_specifiers. *)
(* The token's text is any text over `%`, `s` and the quote.               *)
(***************************************************************************)
TextAlphabet == {"%", "s", "'"}

InitCount ==
    /\ input \in {Tokenize(<<K(tokenize_STRING, text)>>) :
                     text \in SeqsUpTo(TextAlphabet, MaxText)}
    /\ tokens = input
    /\ options = [ignore_pct_formats |-> FALSE, no_warnings |-> FALSE]
    /\ writer = <<>>
    /\ state = "logger_format_string"
    /\ pc = "test_consume"
    /\ consumed_tokens = <<>>
    /\ expected_args = 0
    /\ expected_frac = Whole
    /\ found_args = 0
    /\ open_parens = 0
    /\ count = 0
    /\ count_frac = Whole
    /\ exception = "none"
    /\ branch = "none"
    /\ tokens_at_initial = Len(input)

CountConsumeNextToken ==
    /\ state = "logger_format_string"
    /\ pc = "test_consume"
    /\ LET c == consume_next_token(tokens, consumed_tokens)
       IN  /\ ~c.raised
           /\ tokens' = c.tokens
           /\ consumed_tokens' = c.consumed
    /\ pc' = "test_count"
    /\ branch' = "consume_next_token"
    /\ UNCHANGED <<writer, options, state, expected_args, expected_frac, found_args,
                   open_parens, count, count_frac, exception, input, tokens_at_initial>>

CountFormatSpecifiers ==
    /\ state = "logger_format_string"
    /\ pc = "test_count"
    /\ count' = count_format_specifiers(consumed_tokens)
    /\ count_frac' = Whole
    /\ pc' = "test_counted"
    /\ branch' = "count_format_specifiers"
    /\ UNCHANGED <<tokens, writer, options, state, consumed_tokens, expected_args,
                   expected_frac, found_args, open_parens, exception, input,
                   tokens_at_initial>>

NextCount ==
    \/ CountConsumeNextToken
    \/ CountFormatSpecifiers

SpecCount == InitCount /\ [][NextCount]_vars

(***************************************************************************)
(* Properties.                                                             *)
(***************************************************************************)
IsSignificant(token) == token.type \notin IGNORED_TOKENS

\* every consumed token has been pushed back
RoundTripDone ==
    /\ state = "base"
    /\ pc = "rewind"
    /\ consumed_tokens = <<>>

\* C1 as stated: after n take_front and the n tokens pushed back in reverse
\* order of consumption, the buffer has exactly the content and order it had
\* before, insignificant tokens (INDENT, NEWLINE, 54) included.
C1_RoundTripExact == RoundTripDone => tokens = input

\* C1 as amended: after the round trip the buffer holds the significant tokens
\* of the part that was consumed, in their order, followed by the part that
\* was not touched; the ignored tokens get_next_token skipped are gone.  So
\* the significant tokens and their order are those of the buffer before,
\* and the buffer is exactly the one before when nothing was skipped.
C1_RoundTripSignificant ==
    RoundTripDone =>
        /\ \E m \in 0..Len(input) :
              /\ m = 0 \/ IsSignificant(input[m])
              /\ tokens = SelectSeq(SubSeq(input, 1, m), IsSignificant)
                              \o SubSeq(input, m + 1, Len(input))
        /\ SelectSeq(tokens, IsSignificant) = SelectSeq(input, IsSignificant)
        /\ (\A i \in 1..Len(input) : IsSignificant(input[i])) => tokens = input

\* a round trip of at least one token that dropped an ignored token
C1_Witness ==
    /\ RoundTripDone
    /\ branch \in {"rewind", "rewind_all"}
    /\ tokens # input
    /\ tokens # <<>>

(***************************************************************************)
(* Vocabulary of the properties of the recognizer states.                  *)
(***************************************************************************)
\* the significant tokens of a token list, in order
Sig(toks) == SelectSeq(toks, IsSignificant)

\* the k-th significant token of the buffer is there
HasSig(k) == Len(Sig(tokens)) >= k

SigTok(k) == Sig(tokens)[k]

IsOp(token, ch) == token.type = tokenize_OP /\ token.string = <<ch>>

IsString(token) == token.type = tokenize_STRING

IsName(token, string) == token.type = tokenize_NAME /\ token.string = string

\* this step consumes exactly the next k significant tokens and pushes none back
ConsumesSig(k) == Sig(tokens') = SubSeq(Sig(tokens), k + 1, Len(Sig(tokens)))

\* this step leaves the significant token `token` at the very head of the buffer,
\* with the significant tokens after it untouched
PutsBack(token, k) ==
    /\ tokens' # <<>>
    /\ Head(tokens') = token
    /\ Sig(tokens') = SubSeq(Sig(tokens), k, Len(Sig(tokens)))

IsMismatchError(entry, expected, found) ==
    /\ entry.severity = "ERROR"
    /\ entry.msg = MismatchMsg(expected, found)

\* this step writes exactly one message
WritesOne == Len(writer') = Len(writer) + 1 /\ SubSeq(writer', 1, Len(writer)) = writer

Written == writer'[Len(writer')]

InCountingArgs(p) == state = "counting_args" /\ pc = p

InFormatString(p) == state = "logger_format_string" /\ pc = p

\* the entry is the mismatch ERROR and its two numbers are the values expected
\* and found: %d writes a number that has a fractional part without it
CarriesValues(entry, expected, frac, found) ==
    /\ IsMismatchError(entry, expected, found)
    /\ frac = Whole

\* CountingArgs expects a whole number of arguments
ExpectsWhole == expected_frac = Whole

\* C2: when the counting loop of CountingArgs has exited, the mismatch ERROR
\* is written if and only if expected != found, it carries these two values,
\* nothing else is written, the steps of that state before the exit wrote
\* nothing (so the call gets at most one such ERROR), and the next state is
\* Initial in both cases.
C2_MismatchIffDifferent ==
    [][/\ InCountingArgs("after_loop") =>
            /\ state' = "initial"
            /\ (expected_args # found_args \/ ~ExpectsWhole) =>
                    /\ WritesOne
                    /\ CarriesValues(Written, expected_args, expected_frac, found_args)
            /\ (expected_args = found_args /\ ExpectsWhole) => writer' = writer
       /\ (state = "counting_args" /\ state' = "counting_args") => writer' = writer
      ]_vars

\* C2 where the expected count is a whole number, and what is written when it
\* is not: the ERROR, with the integer part of the expected count
C2_MismatchOfIntegers ==
    [][/\ InCountingArgs("after_loop") =>
            /\ state' = "initial"
            /\ (expected_args # found_args \/ ~ExpectsWhole) =>
                    WritesOne /\ IsMismatchError(Written, expected_args, found_args)
            /\ (expected_args = found_args /\ ExpectsWhole) => writer' = writer
       /\ (state = "counting_args" /\ state' = "counting_args") => writer' = writer
      ]_vars

\* a call counted to its closing parenthesis with a mismatch reported
C2_Witness ==
    /\ branch = "mismatch"
    /\ state = "initial"
    /\ writer # <<>>
    /\ IsMismatchError(writer[Len(writer)], 1, 2)

\* C3: CountingArgs(k, 0) with k > 0 whose first token is the closing
\* parenthesis writes exactly one ERROR, k specifiers and 0 arguments,
\* consumes that token only, and goes to Initial.
C3_ImmediateClose ==
    [][(/\ InCountingArgs("start")
        /\ (expected_args > 0 \/ ~ExpectsWhole)
        /\ HasSig(1)
        /\ IsOp(SigTok(1), ")")) =>
            /\ WritesOne
            /\ CarriesValues(Written, expected_args, expected_frac, 0)
            /\ ConsumesSig(1)
            /\ state' = "initial"
      ]_vars

\* C3 where k is a whole number, and what is written when it is not: the
\* ERROR, with the integer part of the expected count
C3_ImmediateCloseOfIntegers ==
    [][(/\ InCountingArgs("start")
        /\ (expected_args > 0 \/ ~ExpectsWhole)
        /\ HasSig(1)
        /\ IsOp(SigTok(1), ")")) =>
            /\ WritesOne
            /\ IsMismatchError(Written, expected_args, 0)
            /\ ConsumesSig(1)
            /\ state' = "initial"
      ]_vars

C3_Witness ==
    /\ branch = "close_paren_first"
    /\ state = "initial"
    /\ Len(writer) = 1
    /\ IsMismatchError(writer[1], 2, 0)

\* C4: the decision of LoggerFormatString.  count > 0: CountingArgs(count, 0).
\* count = 0 and the next token is `)`: the token is consumed, nothing is
\* written, next state Initial.  count = 0 and the next token is another
\* one: it is back at the head of the buffer and the next state is
\* CountingArgs(0, 0).
C4_Decision ==
    [][InFormatString("decide") =>
        /\ (count > 0 \/ count_frac # Whole) =>
              /\ InCountingArgs("start")'
              /\ expected_args' = count
              /\ expected_frac' = count_frac
              /\ found_args' = 0
              /\ tokens' = tokens
        /\ (count = 0 /\ count_frac = Whole /\ HasSig(1) /\ IsOp(SigTok(1), ")")) =>
              /\ ConsumesSig(1)
              /\ writer' = writer
              /\ state' = "initial"
        /\ (count = 0 /\ count_frac = Whole /\ HasSig(1) /\ ~IsOp(SigTok(1), ")")) =>
              /\ PutsBack(SigTok(1), 1)
              /\ InCountingArgs("start")'
              /\ expected_args' = 0
              /\ expected_frac' = Whole
              /\ found_args' = 0
      ]_vars

\* the decision with no specifier and an argument: CountingArgs(0, 0) with the
\* argument's token at the head of the buffer
C4_Witness ==
    /\ branch = "not_closed"
    /\ InCountingArgs("start")
    /\ expected_args = 0
    /\ expected_frac = Whole
    /\ tokens # <<>>
    /\ ~IsOp(Head(tokens), ")")

\* C5: in the counting loop every `(` increments open_parens, a `)` seen
\* while open_parens > 0 decrements it and the loop goes on, the loop exits
\* exactly at a `)` seen while open_parens is 0, and a comma seen while
\* open_parens > 0 leaves found_args alone; the call of test_nested_commas,
\* one specifier and the argument ",".join(map(str, stuff)), is scanned to the
\* end with nothing written.
C5_NestedParens ==
    /\ [][(InCountingArgs("loop") /\ HasSig(1)) =>
            /\ IsOp(SigTok(1), "(") =>
                  /\ open_parens' = open_parens + 1
                  /\ found_args' = found_args
                  /\ InCountingArgs("loop")'
            /\ (IsOp(SigTok(1), ")") /\ open_parens > 0) =>
                  /\ open_parens' = open_parens - 1
                  /\ found_args' = found_args
                  /\ InCountingArgs("loop")'
            /\ InCountingArgs("after_loop")' <=> (IsOp(SigTok(1), ")") /\ open_parens = 0)
            /\ (IsOp(SigTok(1), ",") /\ open_parens > 0) =>
                  /\ found_args' = found_args
                  /\ open_parens' = open_parens
                  /\ InCountingArgs("loop")'
         ]_vars
    /\ [](input = NestedCommasTokens => writer = <<>> /\ state # "crashed")

\* test_nested_commas scanned to the end, nothing written
C5_Witness ==
    /\ input = NestedCommasTokens
    /\ state = "stopped"
    /\ writer = <<>>

\* C6: a comma at open_parens = 0 whose next significant token is `)` leaves
\* found_args alone, and the `)` is back at the head of the buffer, so that
\* the next turn of the loop leaves the loop; a comma at open_parens = 0
\* followed by another token adds exactly one to found_args, and that token
\* is back at the head of the buffer.
C6_TrailingComma ==
    [][/\ (/\ InCountingArgs("loop")
            /\ open_parens = 0
            /\ HasSig(2)
            /\ IsOp(SigTok(1), ",")) =>
                /\ PutsBack(SigTok(2), 2)
                /\ InCountingArgs("loop")'
                /\ open_parens' = 0
                /\ found_args' = IF IsOp(SigTok(2), ")") THEN found_args ELSE found_args + 1
       /\ (InCountingArgs("loop") /\ branch = "trailing_comma") =>
                /\ InCountingArgs("after_loop")'
                /\ found_args' = found_args
                /\ ConsumesSig(1)
      ]_vars

\* `'%s', x,)` counted: the comma before `)` added nothing, and the call closed
\* with one argument found
C6_Witness ==
    /\ InCountingArgs("after_loop")
    /\ found_args = 1
    /\ Len(consumed_tokens) >= 3
    /\ IsOp(consumed_tokens[Len(consumed_tokens) - 1], ",")
    /\ IsOp(consumed_tokens[Len(consumed_tokens)], ")")

\* C7: when the first token CountingArgs consumes is the operator `%`, the
\* ERROR about the % operator is written unless ignore_pct_formats is set,
\* nothing else is written (no mismatch ERROR, whatever expected_args is),
\* only that token is consumed, and the next state is Initial.
C7_PercentOperator ==
    [][(/\ InCountingArgs("start")
        /\ HasSig(1)
        /\ IsOp(SigTok(1), "%")) =>
            /\ IF options.ignore_pct_formats
               THEN writer' = writer
               ELSE /\ WritesOne
                    /\ Written.severity = "ERROR"
                    /\ Written.msg = PercentMsg
            /\ ConsumesSig(1)
            /\ state' = "initial"
      ]_vars

\* `'a' % ...`: no specifier, and the only message is the one about %
C7_Witness ==
    /\ branch = "percent"
    /\ state = "initial"
    /\ ~options.ignore_pct_formats
    /\ Len(writer) = 1
    /\ writer[1].msg = PercentMsg
    /\ IsString(input[5])
    /\ count_from(input[5].string, 1, FALSE, 0) = 0

\* C8: when the first token CountingArgs consumes is `.` and the next is the
\* NAME format, the next state is Initial, nothing is written and no argument
\* is counted, whatever expected_args is.
C8_DotFormat ==
    [][(/\ InCountingArgs("start")
        /\ HasSig(2)
        /\ IsOp(SigTok(1), ".")
        /\ IsName(SigTok(2), S_format)) =>
            /\ writer' = writer
            /\ state' = "initial"
            /\ ConsumesSig(2)
      ]_vars

\* `'%s'.format` left for Initial, nothing written
C8_Witness ==
    /\ branch = "dot_format"
    /\ state = "initial"
    /\ writer = <<>>
    /\ IsString(input[5])
    /\ count_from(input[5].string, 1, FALSE, 0) = 1

RECURSIVE SumSpecifiers(_)
SumSpecifiers(strings) ==
    IF strings = <<>> THEN 0
    ELSE count_from(Head(strings).string, 1, FALSE, 0) + SumSpecifiers(Tail(strings))

\* C9: in the look-ahead of LoggerFormatString a STRING token adds its own
\* specifier count to the running count and the look-ahead goes on (ignored
\* newline tokens in between are skipped); the first token that is neither a
\* STRING nor `*` is back at the head of the buffer and the look-ahead ends
\* with the count as it is; so, when no `*` was met, the count the decision
\* gets is the sum of the counts of the adjacent string literals, which are
\* all that was consumed.
C9_StringContinuation ==
    /\ [][(InFormatString("lookahead") /\ HasSig(1)) =>
            /\ IsString(SigTok(1)) =>
                  /\ count' = count + count_from(SigTok(1).string, 1, FALSE, 0)
                  /\ ConsumesSig(1)
                  /\ writer' = writer
                  /\ InFormatString("lookahead")'
            /\ (~IsString(SigTok(1)) /\ ~IsOp(SigTok(1), "*")) =>
                  /\ PutsBack(SigTok(1), 1)
                  /\ count' = count
                  /\ writer' = writer
                  /\ InFormatString("decide")'
         ]_vars
    /\ []((/\ InFormatString("decide")
            /\ \A i \in 1..Len(consumed_tokens) : ~IsOp(consumed_tokens[i], "*")) =>
                /\ \A i \in 1..Len(consumed_tokens) : IsString(consumed_tokens[i])
                /\ count = SumSpecifiers(consumed_tokens)
                /\ tokens # <<>>
                /\ ~IsString(Head(tokens)))

\* '%s' <newline> '%s' followed by another token: two strings on two rows
\* consumed, count 2
C9_Witness ==
    /\ InFormatString("decide")
    /\ branch = "put_back"
    /\ Len(consumed_tokens) = 2
    /\ IsString(consumed_tokens[2])
    /\ consumed_tokens[1].start[1] # consumed_tokens[2].start[1]
    /\ count = 2

\* the value Python gives an integer literal: decimal, or hexadecimal after 0x
HexDigits ==
    <<"0", "1", "2", "3", "4", "5", "6", "7", "8", "9", "a", "b", "c", "d", "e", "f">>

RECURSIVE LiteralValue(_, _)
LiteralValue(string, base) ==
    IF string = <<>> THEN 0
    ELSE base * LiteralValue(SubSeq(string, 1, Len(string) - 1), base)
         + (CHOOSE d \in 1..16 : HexDigits[d] = string[Len(string)]) - 1

IntegerValue(string) ==
    IF Len(string) > 2 /\ string[1] = "0" /\ string[2] = "x"
    THEN LiteralValue(SubSeq(string, 3, Len(string)), 16)
    ELSE LiteralValue(string, 10)

\* the text of an integer literal: decimal digits, or 0x and hexadecimal digits
IsIntegerLiteral(string) ==
    \/ string # <<>> /\ \A i \in 1..Len(string) : IsDigit(string[i])
    \/ /\ Len(string) > 2
       /\ string[1] = "0"
       /\ string[2] = "x"
       /\ \A i \in 3..Len(string) : \E d \in 1..16 : HexDigits[d] = string[i]

\* C10: in the look-ahead, `*` followed by a NUMBER of integer value N
\* multiplies the running count by N, writes nothing, consumes these two
\* tokens and the look-ahead goes on.
C10_TimesNumber ==
    [][(/\ InFormatString("lookahead")
        /\ HasSig(2)
        /\ IsOp(SigTok(1), "*")
        /\ SigTok(2).type = tokenize_NUMBER
        /\ IsIntegerLiteral(SigTok(2).string)) =>
            /\ count' = count * IntegerValue(SigTok(2).string)
            /\ writer' = writer
            /\ ConsumesSig(2)
            /\ InFormatString("lookahead")'
      ]_vars

\* C10 for the NUMBER tokens int() reads (decimal literals): what the code does
C10_TimesDecimalNumber ==
    [][(/\ InFormatString("lookahead")
        /\ HasSig(2)
        /\ IsOp(SigTok(1), "*")
        /\ SigTok(2).type = tokenize_NUMBER
        /\ \A i \in 1..Len(SigTok(2).string) : IsDigit(SigTok(2).string[i])
        /\ count_frac = Whole) =>
            /\ count' = count * IntegerValue(SigTok(2).string)
            /\ count_frac' = Whole
            /\ writer' = writer
            /\ ConsumesSig(2)
            /\ InFormatString("lookahead")'
      ]_vars

\* the text of the token count_format_specifiers was called on
CountedText == current_token(consumed_tokens).string

\* the count as the claim scans: `%` followed by `%` skips both, any other `%` counts
RECURSIVE SpecifiersAsStated(_)
SpecifiersAsStated(text) ==
    IF text = <<>> THEN 0
    ELSE IF Head(text) # "%" THEN SpecifiersAsStated(Tail(text))
    ELSE IF Len(text) >= 2 /\ text[2] = "%" THEN SpecifiersAsStated(Tail(Tail(text)))
    ELSE 1 + SpecifiersAsStated(Tail(text))

\* the same scan, but a `%` with no character after it does not count
RECURSIVE SpecifiersFollowed(_)
SpecifiersFollowed(text) ==
    IF text = <<>> THEN 0
    ELSE IF Head(text) # "%" THEN SpecifiersFollowed(Tail(text))
    ELSE IF Len(text) = 1 THEN 0
    ELSE IF text[2] = "%" THEN SpecifiersFollowed(Tail(Tail(text)))
    ELSE 1 + SpecifiersFollowed(Tail(text))

\* C11 as stated: the count of a token text is the number of `%` not immediately
\* followed by another `%` (a pair `%%` skipped), for every text, a text whose
\* last character is `%` included.
C11_CountAsStated ==
    pc = "test_counted" => count = SpecifiersAsStated(CountedText)

\* C11 amended: the count is the number of `%` that are followed by a character
\* other than `%` (a pair `%%` skipped); a lone `%` that is the last character of
\* the text is not counted.
C11_CountFollowed ==
    pc = "test_counted" =>
        /\ count = SpecifiersFollowed(CountedText)
        /\ (CountedText # <<>> /\ CountedText[Len(CountedText)] # "%") =>
                count = SpecifiersAsStated(CountedText)

\* a text that ends in a run of three `%` has been counted: the pair is skipped
\* and the last `%` is not counted
C11_Witness ==
    /\ pc = "test_counted"
    /\ Len(CountedText) >= 4
    /\ \A i \in (Len(CountedText) - 2)..Len(CountedText) : CountedText[i] = "%"
    /\ CountedText[1] = "%" /\ CountedText[2] = "s"
    /\ count = 1
    /\ SpecifiersAsStated(CountedText) = 2

\* the k-th of the four shape checks of PossibleLoggerStatement, on the k-th
\* significant token of the buffer
ShapeCheck(k) ==
    CASE k = 1 -> IsOp(SigTok(1), ".")
      [] k = 2 -> /\ SigTok(2).type = tokenize_NAME
                  /\ SigTok(2).string \in
                        {S_debug, S_info, S_warn, S_error, S_exception, S_critical}
      [] k = 3 -> IsOp(SigTok(3), "(")
      [] k = 4 -> IsString(SigTok(4))

LoggerCallShape == HasSig(4) /\ \A k \in 1..4 : ShapeCheck(k)

\* the k-th check is the first that fails
ShapeFailsAt(k) == HasSig(k) /\ (\A j \in 1..(k - 1) : ShapeCheck(j)) /\ ~ShapeCheck(k)

\* the buffer runs out when the k-th token is asked for, the checks before passed
ShapeExhaustedAt(k) ==
    Len(Sig(tokens)) = k - 1 /\ \A j \in 1..(k - 1) : ShapeCheck(j)

\* every token of the buffer after the step was in the buffer before it
NothingForeign == \A i \in 1..Len(tokens') : \E j \in 1..Len(tokens) : tokens'[i] = tokens[j]

\* C12: PossibleLoggerStatement goes to LoggerFormatString if and only if the next
\* four significant tokens are `.`, a NAME among the six logger methods, `(` and a
\* STRING; then only the STRING is pushed back: it is the first token of the
\* buffer when LoggerFormatString starts, and `.`, the method and `(` are gone.
C12_Success ==
    [][state = "possible_logger_statement" =>
          /\ (state' = "logger_format_string") <=> LoggerCallShape
          /\ LoggerCallShape =>
                /\ PutsBack(SigTok(4), 4)
                /\ \A i \in 1..Len(tokens') :
                      tokens'[i] \notin {SigTok(1), SigTok(2), SigTok(3)}
                /\ InFormatString("start")'
                /\ consumed_tokens' = <<>>
                /\ writer' = writer
      ]_vars

\* a call with a method other than debug has been recognised, its format string
\* first in the buffer
C12_Witness ==
    /\ InFormatString("start")
    /\ branch = "logger_statement"
    /\ consumed_tokens = <<>>
    /\ Len(input) >= 5
    /\ IsName(input[3], S_exception)
    /\ tokens # <<>>
    /\ IsString(Head(tokens))
    /\ Head(tokens) = input[5]

\* C13: when one of the four shape checks fails, PossibleLoggerStatement pushes
\* back every token it consumed and no other (the logger-name token stays
\* consumed), the next state is Initial, and the first token of the buffer is the
\* first token this state consumed.
C13_Abort ==
    [][(state = "possible_logger_statement" /\ \E k \in 1..4 : ShapeFailsAt(k)) =>
          /\ state' = "initial"
          /\ PutsBack(SigTok(1), 1)
          /\ NothingForeign
          /\ consumed_tokens' = <<>>
          /\ writer' = writer
      ]_vars

\* the fourth check failed (`logger.debug(x`): Initial is next and the `.` after
\* the logger name is first in the buffer again, followed by the method and `(`
C13_Witness ==
    /\ state = "initial"
    /\ branch = "not_format_string"
    /\ Len(tokens) >= 4
    /\ IsOp(tokens[1], ".")
    /\ IsName(tokens[2], S_debug)
    /\ IsOp(tokens[3], "(")
    /\ ~IsString(tokens[4])
    /\ tokens = SubSeq(input, 2, Len(input))

\* C14: Initial consumes one significant token per step; PossibleLoggerStatement
\* is next if and only if the token is a NAME whose text is logger, log, LOG or
\* LOGGER, otherwise the token is discarded and Initial is next; with no
\* significant token left End is next; Initial writes nothing.
C14_Initial ==
    [][state = "initial" =>
          /\ writer' = writer
          /\ consumed_tokens' = <<>>
          /\ IF HasSig(1)
             THEN /\ ConsumesSig(1)
                  /\ state' \in {"possible_logger_statement", "initial"}
                  /\ (state' = "possible_logger_statement") <=>
                        /\ SigTok(1).type = tokenize_NAME
                        /\ SigTok(1).string \in {S_logger, S_log, S_LOG, S_LOGGER}
             ELSE state' = "the_end" /\ tokens' = <<>>
      ]_vars

\* Initial has found the buffer holding an insignificant token only (the line
\* end after the call) and End is next, nothing written
C14_Witness ==
    /\ state = "the_end"
    /\ branch = "exhausted"
    /\ input # <<>>
    /\ IsName(input[1], S_LOG)
    /\ input[Len(input)].type \in IGNORED_TOKENS
    /\ tokens = <<>>
    /\ writer = <<>>

\* C15 as stated: when the buffer runs out while PossibleLoggerStatement checks
\* the shape (after 0 to 3 tokens consumed), the state aborts: the tokens it
\* consumed are pushed back, Initial is next, and the scan does not fail.
C15_ExhaustionAborts ==
    [][(state = "possible_logger_statement" /\ \E k \in 1..4 : ShapeExhaustedAt(k)) =>
          /\ state' = "initial"
          /\ Sig(tokens') = Sig(tokens)
          /\ exception' = "none"
      ]_vars

\* the next step of LoggerFormatString / CountingArgs begins by asking for a token
ExpectsToken ==
    \/ state = "logger_format_string" /\ pc \in {"start", "lookahead"}
    \/ state = "logger_format_string" /\ pc = "decide" /\ count <= 0
    \/ state = "counting_args" /\ pc \in {"start", "loop"}

\* C16 as stated: when the buffer runs out while LoggerFormatString or CountingArgs
\* expects another token, the scan ends as if End had been reached: nothing is
\* written for the exhaustion and no error leaves the loop of the scan engine.
C16_ExhaustionEndsScan ==
    [][(ExpectsToken /\ ~HasSig(1)) =>
          /\ state' \in {"the_end", "stopped"}
          /\ exception' = "none"
          /\ writer' = writer
      ]_vars

\* the scan of `logger.debug('%s', x]` (a source tokenize accepts, ENDMARKER last)
\* has died in CountingArgs with the IndexError of the empty token list
C16_TruncatedCallDies ==
    /\ state = "crashed"
    /\ exception = "IndexError"
    /\ pc = "loop"
    /\ input # <<>>
    /\ input[Len(input)].type = tokenize_ENDMARKER
    /\ tokens = <<>>

\* the step taken lands where one turn of the look-ahead loop lands when it is
\* computed under the options opts and the writer content out
LookaheadLandsAs(out, opts) ==
    LET t == lookahead_turn(tokens, consumed_tokens, count, count_frac, out, opts)
    IN  /\ tokens' = t.tokens
        /\ IF t.raised # "none"
           THEN state' = "crashed" /\ exception' = t.raised
           ELSE /\ state' = state
                /\ pc' = t.pc
                /\ consumed_tokens' = t.consumed
                /\ count' = t.count
                /\ count_frac' = t.frac
                /\ exception' = "none"

\* the same for the first step of CountingArgs
CountingArgsStartLandsAs(out, opts) ==
    LET r == counting_args_start(tokens, consumed_tokens, expected_args, found_args,
                                 out, opts)
    IN  /\ tokens' = r.tokens
        /\ IF r.raised
           THEN state' = "crashed" /\ exception' = "IndexError"
           ELSE IF r.next = "loop"
           THEN /\ state' = state
                /\ pc' = "loop"
                /\ consumed_tokens' = r.consumed
                /\ found_args' = r.found
                /\ expected_args' = expected_args
           ELSE /\ state' = r.next
                /\ pc' = "process"
                /\ consumed_tokens' = <<>>
                /\ expected_args' = 0
                /\ found_args' = 0

\* C17: the configuration does not influence parsing.  The options never change
\* during a scan, and wherever a step reads them (one turn of the look-ahead
\* loop, which may warn, and the first step of CountingArgs, which may report `%`
\* or warn about `+`), the step taken lands on the state, the constructor
\* arguments and the buffer that the same step gives under each of the four
\* configurations, whatever has been written so far; so the scans of one buffer
\* under two configurations go through the same states with the same buffers,
\* and differ in what is written only.
C17_ConfigIndependent ==
    [][/\ options' = options
       /\ \A opts \in Options : \A out \in {<<>>, writer} :
             /\ InFormatString("lookahead") => LookaheadLandsAs(out, opts)
             /\ InCountingArgs("start") => CountingArgsStartLandsAs(out, opts)
      ]_vars

\* with warnings off, a turn of the look-ahead loop has met a multiplication it
\* cannot evaluate, has written nothing and goes round again, as with warnings on
C17_Witness ==
    /\ InFormatString("lookahead")
    /\ branch = "times_other"
    /\ options.no_warnings
    /\ writer = <<>>
    /\ count > 0

IsError(entry) == entry.severity = "ERROR"

IsWarning(entry) ==
    \/ entry.severity = "WARNING"
    \/ entry.msg \in {AddedMsg, MultipliedMsg}

\* the entries a step added to the writer content out
Added(out) == SubSeq(out, Len(writer) + 1, Len(out))

\* what the step taken would have added under the options opts
AddedUnder(opts) ==
    IF InFormatString("lookahead")
    THEN Added(lookahead_turn(tokens, consumed_tokens, count, count_frac, writer, opts).writer)
    ELSE IF InCountingArgs("start")
    THEN Added(counting_args_start(tokens, consumed_tokens, expected_args, found_args,
                                   writer, opts).writer)
    ELSE Added(writer')

\* C18: with no_warnings set no WARNING is ever written, and the ERRORs written
\* are those written with no_warnings unset: every step writes, whatever
\* no_warnings says, the same ERRORs, and nothing but WARNINGs besides.
C18_WarningsOnly ==
    /\ [](options.no_warnings => \A i \in 1..Len(writer) : ~IsWarning(writer[i]))
    /\ [][\A nw \in BOOLEAN :
            LET other == AddedUnder([options EXCEPT !.no_warnings = nw])
            IN  /\ SubSeq(writer', 1, Len(writer)) = writer
                /\ SelectSeq(other, IsError) = SelectSeq(Added(writer'), IsError)
                /\ nw => other = SelectSeq(other, IsError)
                /\ \A i \in 1..Len(other) : IsError(other[i]) \/ IsWarning(other[i])
         ]_vars

\* with no_warnings set, a format string followed by `+` has been met: nothing
\* is written where the `+` warning would be
C18_Witness ==
    /\ options.no_warnings
    /\ state = "initial"
    /\ branch = "plus"
    /\ writer = <<>>

\* the loop of consume() has been left: by End's StopIteration, or by an exception
Stopped == state = "stopped"

Failed == state = "crashed"

\* a measure that every transition lowers: tokens still in the buffer count
\* twice, tokens consumed by the current state once (they can be pushed back),
\* and Position orders the steps that move no token
Position ==
    CASE state \in {"stopped", "crashed"} -> 0
      [] state = "the_end" -> 1
      [] state = "initial" -> 2
      [] state = "possible_logger_statement" -> 3
      [] state = "logger_format_string" /\ pc = "lookahead" -> 2
      [] OTHER -> 1

Measure == 4 * (2 * Len(tokens) + Len(consumed_tokens)) + Position

\* the loop is at a state object and a position whose next step is defined
Running ==
    \/ state \in {"initial", "possible_logger_statement", "the_end"}
    \/ state = "logger_format_string" /\ pc \in {"start", "lookahead", "decide"}
    \/ state = "counting_args" /\ pc \in {"start", "loop", "after_loop"}

\* C19: the loop of the scan engine stops after finitely many transitions (each
\* one lowers Measure, a natural number, and the loop runs on until it has
\* stopped or failed); every return to Initial finds strictly fewer tokens in the
\* buffer than the visit to Initial before it; and a scan stops without failing
\* only by Initial finding no significant token left and going to End, and End
\* stopping the loop.
C19_Terminates ==
    /\ [](Measure \in Nat)
    /\ [][Measure' < Measure]_vars
    /\ [](Running \/ Stopped \/ Failed)
    /\ [][state' = "initial" => Len(tokens') < tokens_at_initial]_vars
    /\ [][state' = "the_end" => (state = "initial" /\ ~HasSig(1) /\ tokens' = <<>>)]_vars
    /\ [][Stopped' => state = "the_end"]_vars

\* a scan of a logger call has come back to Initial with fewer tokens, found
\* the buffer exhausted, gone to End, and End has stopped the loop
C19_Witness ==
    /\ Stopped
    /\ branch = "StopIteration"
    /\ tokens = <<>>
    /\ tokens_at_initial = 0
    /\ Len(input) >= 9
    /\ Len(writer) = 1

\* the message of UnreachableState.process
UnreachableMsg ==
    <<"Got into a state we should never get into.  Don't know how to proceed.">>

\* C20: the Unreachable state is never entered: every transition that Initial,
\* PossibleLoggerStatement, LoggerFormatString or CountingArgs produces targets
\* one of initial, possible_logger_statement, logger_format_string, counting_args
\* and the_end, never unreachable_state (whose name consume() could not even
\* look up), and the internal-error message is never written.
C20_NeverUnreachable ==
    /\ [](/\ state # "unreachable_state"
          /\ branch # "unreachable_state"
          /\ exception # "KeyError"
          /\ \A i \in 1..Len(writer) : writer[i].msg # UnreachableMsg)
    /\ [][(state \in {"initial", "possible_logger_statement", "logger_format_string",
                      "counting_args"}) =>
            (\/ state' \in {"initial", "possible_logger_statement",
                             "logger_format_string", "counting_args", "the_end"}
             \/ (Failed' /\ exception' \in {"IndexError", "ValueError"}))
      ]_vars

\* LoggerFormatString has returned after its loop with a count of 0, the case
\* next to the return of unreachable_state, and CountingArgs(0, 0) is next
C20_Witness ==
    /\ InCountingArgs("start")
    /\ branch = "not_closed"
    /\ expected_args = 0
    /\ expected_frac = Whole
    /\ writer = <<>>

\* the token lists of StatementInputs, each with its two statements
StatementScans == {<<Tokenize(s1 \o s2), s1, s2>> : s1 \in Statements, s2 \in Statements}

\* what the statement stmt, on the line row, is to be reported with: its format
\* string is its 5th token, and the 6th says what follows it
StatementDiagnostics(stmt, row, opts) ==
    LET specifiers == SpecifiersAsStated(stmt[5].string)
        arguments == IF stmt[6] = k_comma THEN 1 ELSE 0
        entry(severity, msg) == <<[severity |-> severity, msg |-> msg, row |-> row]>>
    IN  IF stmt[6] = k_percent
        THEN IF opts.ignore_pct_formats THEN <<>> ELSE entry("ERROR", PercentMsg)
        ELSE IF stmt[6] = k_plus
        THEN IF opts.no_warnings THEN <<>> ELSE entry("WARNING", AddedMsg)
        ELSE IF specifiers # arguments
        THEN entry("ERROR", MismatchMsg(specifiers, arguments))
        ELSE <<>>

\* the scan of two statements has stopped with each statement's diagnostic
\* written, first statement first
StatementsReportedInOrder ==
    Stopped =>
        \A scan \in StatementScans :
            input = scan[1] =>
                writer = StatementDiagnostics(scan[2], 1, options)
                            \o StatementDiagnostics(scan[3], 2, options)

MultipliedTokens == Tokenize(multiplied_by_name_and_number)

\* C22 as stated: when the token after `*` is not a NUMBER, the look-ahead stops:
\* with nothing written if the running count is 0, else with the WARNING about
\* the multiplied format string written (unless no_warnings); the count stays as
\* it was before the `*`, and no token after the multiplier is consumed by the
\* look-ahead.
C22_NonNumericMultiplier ==
    [][(/\ InFormatString("lookahead")
        /\ HasSig(2)
        /\ IsOp(SigTok(1), "*")
        /\ SigTok(2).type # tokenize_NUMBER) =>
            /\ InFormatString("decide")'
            /\ count' = count
            /\ ConsumesSig(2)
            /\ IF count > 0 /\ ~options.no_warnings
               THEN /\ WritesOne
                    /\ Written.severity = "WARNING"
                    /\ Written.msg = MultipliedMsg
               ELSE writer' = writer
      ]_vars

\* what the source does instead, with a count above 0: the WARNING is written as
\* stated, but the loop goes round again, and may consume and count what follows
\* the multiplier
C22_LookaheadGoesOn ==
    [][(/\ InFormatString("lookahead")
        /\ HasSig(2)
        /\ IsOp(SigTok(1), "*")
        /\ SigTok(2).type # tokenize_NUMBER
        /\ count > 0) =>
            /\ InFormatString("lookahead")'
            /\ count' = count
            /\ ConsumesSig(2)
            /\ IF ~options.no_warnings
               THEN /\ WritesOne
                    /\ Written.severity = "WARNING"
                    /\ Written.msg = MultipliedMsg
               ELSE writer' = writer
      ]_vars

\* logger.debug('%s' * x * 2, x, x): after the WARNING the look-ahead has taken
\* `* 2` as well, and CountingArgs is made with 2 where the count before the
\* first `*` was 1
C22_CountAfterWarning ==
    /\ input = MultipliedTokens
    /\ InCountingArgs("start")
    /\ expected_args = 2
    /\ ~options.no_warnings
    /\ Len(writer) = 1
    /\ writer[1].msg = MultipliedMsg

\* C23: when the first token CountingArgs consumes is `+`, exactly one more
\* token is consumed, the WARNING about added format strings is written unless
\* no_warnings is set, nothing else is written (no mismatch ERROR for the call),
\* and Initial is next.
C23_AddedStrings ==
    [][(/\ InCountingArgs("start")
        /\ HasSig(2)
        /\ IsOp(SigTok(1), "+")) =>
            /\ state' = "initial"
            /\ ConsumesSig(2)
            /\ consumed_tokens' = <<>>
            /\ IF options.no_warnings
               THEN writer' = writer
               ELSE /\ WritesOne
                    /\ Written.severity = "WARNING"
                    /\ Written.msg = AddedMsg
                    /\ Written.row = SigTok(2).start[1]
      ]_vars

\* logger.debug('%s' + ...: CountingArgs(1, 0) has met `+`, the WARNING is the
\* only thing written and Initial is next
C23_Witness ==
    /\ state = "initial"
    /\ branch = "plus"
    /\ ~options.no_warnings
    /\ Len(writer) = 1
    /\ writer[1].severity = "WARNING"
    /\ writer[1].msg = AddedMsg
    /\ IsString(input[5])
    /\ SpecifiersAsStated(input[5].string) = 1

DotMethodTokens == Tokenize(dot_method_one_arg)

\* C24: when the first token CountingArgs consumes is `.` and the next is not the
\* NAME format, only that next token is pushed back to the head of the buffer;
\* the `.` is not restored and is taken as the first argument (found_args is 1
\* when the loop starts on the pushed-back token); so logger.debug('%s'.x(), x)
\* is reported as 1 format specifier but 2 arguments.
C24_DotNotFormat ==
    /\ [][(/\ InCountingArgs("start")
           /\ HasSig(2)
           /\ IsOp(SigTok(1), ".")
           /\ ~IsName(SigTok(2), S_format)) =>
               /\ InCountingArgs("loop")'
               /\ PutsBack(SigTok(2), 2)
               /\ \A i \in 1..Len(tokens') : tokens'[i] # SigTok(1)
               /\ found_args = 0
               /\ found_args' = 1
               /\ expected_args' = expected_args
               /\ open_parens' = 0
               /\ writer' = writer
         ]_vars
    /\ []((Stopped /\ input = DotMethodTokens) =>
            /\ Len(writer) = 1
            /\ IsMismatchError(writer[1], 1, 2))

\* the scan of logger.debug('%s'.x(), x) has stopped with the report of 1
\* format specifier but 2 arguments
C24_Witness ==
    /\ Stopped
    /\ input = DotMethodTokens
    /\ Len(writer) = 1
    /\ IsMismatchError(writer[1], 1, 2)

BracketedTokens == Tokenize(bracketed_commas)

BracedTokens == Tokenize(braced_commas)

\* C25: in the counting loop of CountingArgs only `(` and `)` change the
\* nesting depth: `(` raises open_parens by one, `)` at a depth above 0 lowers
\* it by one, every other token (`[`, `]`, `{`, `}` included) leaves it as it
\* is; found_args changes on a comma only, and a comma at depth 0 that is not
\* followed by `)` raises it by one, also when the comma is inside [ ] or { };
\* so ('%s', [x, x]) and ('%s', {x, x}) are reported as 2 arguments.
C25_OnlyParensNest ==
    /\ [][(/\ InCountingArgs("loop")
           /\ HasSig(1)
           /\ state' # "crashed") =>
               /\ open_parens' =
                      IF IsOp(SigTok(1), "(") THEN open_parens + 1
                      ELSE IF IsOp(SigTok(1), ")") /\ open_parens > 0
                           THEN open_parens - 1
                           ELSE open_parens
               /\ found_args' =
                      IF /\ IsOp(SigTok(1), ",")
                         /\ open_parens <= 0
                         /\ ~IsOp(SigTok(2), ")")
                      THEN found_args + 1
                      ELSE found_args
               /\ writer' = writer
         ]_vars
    /\ []((Stopped /\ input \in {BracketedTokens, BracedTokens}) =>
            /\ Len(writer) = 1
            /\ IsMismatchError(writer[1], 1, 2))

\* the scan of logger.debug('%s', {x, x}) has stopped with the report of 1
\* format specifier but 2 arguments
C25_Witness ==
    /\ Stopped
    /\ input = BracedTokens
    /\ Len(writer) = 1
    /\ IsMismatchError(writer[1], 1, 2)

\* the same for logger.debug('%s', [x, x])
C25_WitnessBracketed ==
    /\ Stopped
    /\ input = BracketedTokens
    /\ Len(writer) = 1
    /\ IsMismatchError(writer[1], 1, 2)

\* the significant token of the input just before what this step leaves in the
\* buffer: the token consumed last and not pushed back
LastConsumed == Sig(input)[Len(Sig(input)) - Len(Sig(tokens'))]

MultilineOneFmtTwoArgs == Tokenize(test_multiline_one_fmt_two_args)

MultilineTwoFmtOneArgs == Tokenize(test_multiline_two_fmt_one_args)

\* C26: every diagnostic carries the row of the token the emitting state
\* consumed last and did not push back (the source line written is that same
\* token's line); for the mismatch found once the counting loop is left this
\* token is the call's closing `)`, so a call spread over several rows is
\* reported at the row of its `)` (row 3 in the two multi-line tests, the
\* logger name being on row 2); and after the peek that follows a top-level
\* comma the current token is the comma, not the peeked token, which is back
\* at the head of the buffer.
C26_Location ==
    /\ [][writer' # writer =>
               /\ WritesOne
               /\ Written.row = LastConsumed.start[1]
         ]_vars
    /\ [][(InCountingArgs("after_loop") /\ writer' # writer) =>
               /\ IsOp(LastConsumed, ")")
               /\ LastConsumed = current_token(consumed_tokens)
               /\ IsMismatchError(Written, expected_args, found_args)
         ]_vars
    /\ [][(/\ InCountingArgs("loop")
           /\ HasSig(2)
           /\ IsOp(SigTok(1), ",")
           /\ open_parens <= 0) =>
               /\ PutsBack(SigTok(2), 2)
               /\ current_token(consumed_tokens') = SigTok(1)
               /\ LastConsumed = SigTok(1)
         ]_vars
    /\ []((Stopped /\ input = MultilineOneFmtTwoArgs) =>
            writer = <<[severity |-> "ERROR", msg |-> MismatchMsg(1, 2), row |-> 3]>>)
    /\ []((Stopped /\ input = MultilineTwoFmtOneArgs) =>
            writer = <<[severity |-> "ERROR", msg |-> MismatchMsg(2, 1), row |-> 3]>>)

\* the scan of the call spread over rows 2 and 3 has stopped with its mismatch
\* reported at row 3, where the closing `)` is
C26_Witness ==
    /\ Stopped
    /\ input = MultilineOneFmtTwoArgs
    /\ input[3].start[1] = 2
    /\ IsName(input[3], S_logger)
    /\ Len(writer) = 1
    /\ IsMismatchError(writer[1], 1, 2)
    /\ writer[1].row = 3

\* the last n - k significant tokens of the input
InputSuffix(k) == SubSeq(Sig(input), k + 1, Len(Sig(input)))

\* C27: at every transition of the scan the significant tokens in the buffer
\* are a suffix of the significant tokens of the input, in the input's order
\* (nothing duplicated, nothing reordered); the tokens the current state holds
\* as consumed are exactly the input's tokens just before that suffix, and
\* every state instance starts with none, so a push-back can re-insert only
\* what the state itself consumed.
C27_TokenConservation ==
    /\ [](\E k \in 0..Len(Sig(input)) :
            /\ Sig(tokens) = InputSuffix(k)
            /\ state # "crashed" =>
                  /\ Len(consumed_tokens) <= k
                  /\ consumed_tokens =
                         SubSeq(Sig(input), k - Len(consumed_tokens) + 1, k))
    /\ [][(state' # state /\ state' # "crashed") => consumed_tokens' = <<>>]_vars
    /\ [][Len(Sig(tokens')) > Len(Sig(tokens)) =>
               /\ Len(Sig(tokens')) - Len(Sig(tokens)) <= Len(consumed_tokens)
               /\ Sig(tokens') =
                      SubSeq(consumed_tokens,
                             Len(consumed_tokens)
                                 - (Len(Sig(tokens')) - Len(Sig(tokens))) + 1,
                             Len(consumed_tokens)) \o Sig(tokens)
         ]_vars

\* PossibleLoggerStatement has pushed back the four tokens it consumed, and the
\* logger name, consumed by the Initial state before it, is not among them
C27_Witness ==
    /\ state = "initial"
    /\ branch = "not_format_string"
    /\ Len(Sig(input)) >= 5
    /\ Len(Sig(tokens)) = Len(Sig(input)) - 1
    /\ Sig(tokens) = InputSuffix(1)

\* the entry is a mismatch ERROR whose two reported numbers are equal
ReportsEqualNumbers(entry) ==
    /\ entry.severity = "ERROR"
    /\ Len(entry.msg) = 5
    /\ entry.msg[2] = entry.msg[4]

\* C28 without its consequence: in CountingArgs open_parens is never below 0;
\* CountingArgs is made with found = 0 and expected >= 0 only; and
\* CountingArgs(0, 0) never has `)` as its first token.
C28_CountersInRange ==
    /\ [](state = "counting_args" => open_parens >= 0)
    /\ [][(state # "counting_args" /\ state' = "counting_args") =>
               /\ found_args' = 0
               /\ expected_args' >= 0
               /\ pc' = "start"
         ]_vars
    /\ [][(/\ InCountingArgs("start")
           /\ expected_args = 0
           /\ ExpectsWhole
           /\ HasSig(1)) => ~IsOp(SigTok(1), ")")
         ]_vars

\* C28: in every reachable state of CountingArgs open_parens >= 0, and
\* CountingArgs is only ever made with found = 0 and expected >= 0; as a
\* consequence no mismatch ERROR is ever written whose two reported numbers
\* are equal.
C28_NoEqualNumbers ==
    /\ C28_CountersInRange
    /\ [](\A i \in 1..Len(writer) : ~ReportsEqualNumbers(writer[i]))

\* logger.debug('%s' * 0.5): CountingArgs was made expecting half an argument,
\* met `)` first and reported 0 format specifiers but 0 arguments
C28_EqualNumbersReported ==
    /\ input = Tokenize(half_a_specifier)
    /\ Stopped
    /\ Len(writer) = 1
    /\ IsMismatchError(writer[1], 0, 0)

====
